---- MODULE Spec2Model ----
(***************************************************************************)
(* A model of the Flask productivity API (src/app.py, src/models.py):      *)
(* session authentication, the users table with its unique constraints,    *)
(* and the owner-scoped notes resource with its paginated listing.         *)
(*                                                                         *)
(* Strings are sequences of one-character strings, so that strip(),        *)
(* lower() and the "in" test are computed and not assumed.  A JSON body    *)
(* is a function from the keys it holds to their values.                   *)
(*                                                                         *)
(* Three specifications share the handlers.  Spec: every sign-up and login *)
(* body, two users, notes of one title.  SpecNotes: one user, every note   *)
(* body.  SpecDelete: Spec with the history of the deleted note ids.       *)
(***************************************************************************)
EXTENDS Integers, Sequences, FiniteSets, TLC

VARIABLES users, notes, session, now, deleted

\* users, notes: the rows of the two tables.  session: each client's cookie.
\* now: the reading of datetime.utcnow.  deleted: a history of the note ids
\* a DELETE has answered 204 for, recorded by SpecDelete alone and empty
\* elsewhere; no handler reads it.
vars == <<users, notes, session, now, deleted>>

-----------------------------------------------------------------------------
(* Bounds of the model.                                                    *)

\* Largest note id the store hands out in the model.
MaxNoteId == 2

\* Last instant of the clock read by datetime.utcnow.
MaxTime == 1

\* The browser session (cookie jar) that issues the requests; it signs up,
\* logs in and logs out as one user after the other.
Clients == {"c1"}

-----------------------------------------------------------------------------
(* Python string operations on sequences of characters.                    *)

IsSpace(ch) == ch = " "

RECURSIVE LStrip(_)
LStrip(s) ==
    IF s # <<>> /\ IsSpace(Head(s)) THEN LStrip(Tail(s)) ELSE s

RECURSIVE RStrip(_)
RStrip(s) ==
    IF s # <<>> /\ IsSpace(s[Len(s)]) THEN RStrip(SubSeq(s, 1, Len(s) - 1)) ELSE s

\* str.strip()
Strip(s) == RStrip(LStrip(s))

LowerChar(ch) ==
    CASE ch = "A" -> "a"
      [] ch = "X" -> "x"
      [] OTHER -> ch

\* str.lower()
Lower(s) == [i \in 1..Len(s) |-> LowerChar(s[i])]

\* ch in s
HasChar(s, ch) == \E i \in 1..Len(s) : s[i] = ch

\* Python truthiness of a string: the empty string is falsy.
Truthy(s) == s # <<>>

\* "not data.get(field)": the key is missing, or its value is empty.
Falsy(data, key) == key \notin DOMAIN data \/ ~Truthy(data[key])

\* The empty JSON object and the empty session.
EmptyDict == [k \in {} |-> <<>>]

-----------------------------------------------------------------------------
(* Request inputs.                                                         *)

\* Usernames sent to /signup and /login: too short after strip(), two that
\* strip to the same name, and one that differs from it by case only.
UsernameInputs ==
    { <<>>, <<" ", "a", "b">>, <<"a", "b", "c">>, <<"a", "b", "c", " ">>,
      <<"A", "b", "c">> }

\* Emails: one without "@", two that normalise to the same address, another.
EmailInputs ==
    { <<"a", "b">>, <<"a", "@", "b">>, <<" ", "A", "@", "b">>, <<"x", "@", "y">> }

PasswordInputs == { <<"p">> }

LoginPasswordInputs == { <<"p">>, <<"q">> }

\* Every JSON object over the keys of vals, each key present or absent,
\* a present key holding one of vals[key].
Bodies(vals) ==
    UNION { { d \in [ks -> UNION { vals[k] : k \in DOMAIN vals }] :
                \A k \in ks : d[k] \in vals[k] } : ks \in SUBSET DOMAIN vals }

SignupVals ==
    [username |-> UsernameInputs, email |-> EmailInputs, password |-> PasswordInputs]

SignupBodies == Bodies(SignupVals)

LoginVals == [username |-> UsernameInputs, password |-> LoginPasswordInputs]

LoginBodies == Bodies(LoginVals)

-----------------------------------------------------------------------------
(* Responses.  A handler is an operator from the stored state, the         *)
(* client's session and the request to the response and the state after.   *)

Result(status, body, U, N, S) ==
    [status |-> status, body |-> body, users |-> U, notes |-> N, sess |-> S]

ErrorBody(msg) == [kind |-> "error", msg |-> msg]

NoBody == [kind |-> "empty"]

\* UserSchema.dump: password_hash is not a field of the schema.
UserDump(id) ==
    [kind |-> "user", id |-> id, username |-> users[id].username,
     email |-> users[id].email]

-----------------------------------------------------------------------------
(* models.User                                                             *)

\* bcrypt.generate_password_hash / check_password_hash: the digest is not
\* the password, and verifies exactly the password it was made from.
GeneratePasswordHash(password) == [alg |-> "bcrypt", of |-> password]

CheckPasswordHash(hash, password) == hash = GeneratePasswordHash(password)

\* User.authenticate (_password_hash is NOT NULL: every stored row has one)
Authenticate(user, password) ==
    IF Truthy(password)
    THEN CheckPasswordHash(user.password_hash, password)
    ELSE FALSE

\* A length check on the raw value, without strip().
UsernameInvalidUnstripped(username) == ~Truthy(username) \/ Len(username) < 3

\* User.validate_username raises ValueError
UsernameInvalid(username) == ~Truthy(username) \/ Len(Strip(username)) < 3

\* the value User.validate_username stores
ValidateUsername(username) == Strip(username)

\* User.validate_email raises ValueError
EmailInvalid(email) == ~Truthy(email) \/ ~HasChar(email, "@")

\* the value User.validate_email stores
ValidateEmail(email) == Strip(Lower(email))

\* A users table whose username column is not unique=True.
UniqueViolationsEmailOnly(username, email) ==
    { f \in {"email"} : \E i \in DOMAIN users : users[i].email = email }

\* The unique constraints of users.username and users.email that an INSERT
\* of (username, email) violates.
UniqueViolations(username, email) ==
    { f \in {"username", "email"} :
        \E i \in DOMAIN users :
            \/ f = "username" /\ users[i].username = username
            \/ f = "email" /\ users[i].email = email }

\* The INSERT statement that SQLAlchemy quotes in str(IntegrityError).
InsertColumns == {"username", "email", "_password_hash", "created_at"}

\* The column names that occur in str(e) of the IntegrityError raised for
\* the violated constraint "users.<field>": the constraint's own, and those
\* of the quoted statement.
IntegrityErrorText(field) == {field} \cup InsertColumns

\* Signup.post's IntegrityError handler
IntegrityMessage(field) ==
    IF "username" \in IntegrityErrorText(field) THEN "Username already exists"
    ELSE IF "email" \in IntegrityErrorText(field) THEN "Email already exists"
    ELSE "Registration failed"

-----------------------------------------------------------------------------
(* Session helpers of app.py                                               *)

\* login_required: 'user_id' in session
LoggedIn(c) == "user_id" \in DOMAIN session[c]

\* get_current_user: the id of the user row, or 0 for None
CurrentUser(c) ==
    IF LoggedIn(c) /\ session[c]["user_id"] \in DOMAIN users
    THEN session[c]["user_id"] ELSE 0

Unauthorized(c) ==
    Result(401, ErrorBody("Authentication required"), users, notes, session[c])

-----------------------------------------------------------------------------
(* Authentication routes                                                   *)

\* Signup.post; viol is the constraint the database reports when the
\* INSERT violates one.
SignupPost(c, data, viol) ==
    LET same(status, msg) == Result(status, ErrorBody(msg), users, notes, session[c])
    IN
    IF data = EmptyDict THEN same(400, "No data provided")
    ELSE IF \E f \in {"username", "email", "password"} : Falsy(data, f)
    THEN same(400, "Missing required fields")
    ELSE IF UsernameInvalid(data["username"])
    THEN same(422, "Username must be at least 3 characters long")
    ELSE IF EmailInvalid(data["email"])
    THEN same(422, "Please provide a valid email address")
    ELSE
      LET username == ValidateUsername(data["username"])
          email == ValidateEmail(data["email"])
          id == Len(users) + 1
          row == [username |-> username, email |-> email,
                  password_hash |-> GeneratePasswordHash(data["password"])]
      IN IF UniqueViolations(username, email) # {}
         THEN same(422, IntegrityMessage(viol))
         ELSE [status |-> 201,
               body |-> [kind |-> "user", id |-> id, username |-> username,
                         email |-> email],
               users |-> Append(users, row),
               notes |-> notes,
               sess |-> [k \in {"user_id"} |-> id]]

\* The constraints the database may report for this request.
SignupViolations(data) ==
    IF \A f \in {"username", "email"} : f \in DOMAIN data
    THEN LET v == UniqueViolations(ValidateUsername(data["username"]),
                                   ValidateEmail(data["email"]))
         IN IF v = {} THEN {"none"} ELSE v
    ELSE {"none"}

\* A lookup that strips the submitted username first.
FindByStrippedUsername(username) ==
    IF \E i \in DOMAIN users : users[i].username = Strip(username)
    THEN CHOOSE i \in DOMAIN users : users[i].username = Strip(username)
    ELSE 0

\* User.query.filter_by(username=username).first(): 0 for None
FindByUsername(username) ==
    IF \E i \in DOMAIN users : users[i].username = username
    THEN CHOOSE i \in DOMAIN users : users[i].username = username
    ELSE 0

\* Login.post
LoginPost(c, data) ==
    LET same(status, msg) == Result(status, ErrorBody(msg), users, notes, session[c])
    IN
    IF data = EmptyDict THEN same(400, "No data provided")
    ELSE IF Falsy(data, "username") \/ Falsy(data, "password")
    THEN same(400, "Username and password required")
    ELSE
      LET id == FindByUsername(data["username"])
      IN IF id # 0 /\ Authenticate(users[id], data["password"])
         THEN Result(200, UserDump(id), users, notes, [k \in {"user_id"} |-> id])
         ELSE same(401, "Invalid credentials")

\* A logout that answers 204 and leaves 'user_id' in the session.
LogoutKeepsSession(c) ==
    IF ~LoggedIn(c) THEN Unauthorized(c)
    ELSE Result(204, NoBody, users, notes, session[c])

\* Logout.delete
LogoutDelete(c) ==
    IF ~LoggedIn(c) THEN Unauthorized(c)
    ELSE Result(204, NoBody, users, notes, EmptyDict)

\* CheckSession.get
CheckSessionGet(c) ==
    IF CurrentUser(c) # 0
    THEN Result(200, UserDump(CurrentUser(c)), users, notes, session[c])
    ELSE Result(401, ErrorBody("No active session"), users, notes, session[c])


-----------------------------------------------------------------------------
(* models.Note                                                             *)

\* db.String(200) and the limit of Note.validate_title
MaxTitleLen == 200

\* "Limit per_page to prevent abuse": min(per_page, 100)
MaxPerPage == 100

LongTitle == [i \in 1..(MaxTitleLen + 1) |-> "t"]

TitleInputs == { <<>>, <<" ">>, <<"a">>, <<"b", " ">>, LongTitle }

ContentInputs == { <<>>, <<"c">> }

NoteVals == [title |-> TitleInputs, content |-> ContentInputs]

NoteBodies == Bodies(NoteVals)

\* <int:note_id> of the URL: every id the store can hold, and one it cannot
NoteIdInputs == 1..(MaxNoteId + 1)

PageInputs == (-1)..(MaxNoteId + 1)

PerPageInputs == {-1, 0, 1, 2, MaxPerPage, MaxPerPage + 1, 1000}

ArgVals == [page |-> PageInputs, per_page |-> PerPageInputs]

\* The query string of GET /notes: each of page and per_page given or not
ArgInputs == Bodies(ArgVals)

\* A validator without the upper limit on the title's length.
TitleInvalidNoLimit(title) == ~Truthy(title) \/ Len(Strip(title)) < 1

\* Note.validate_title raises ValueError
TitleInvalid(title) ==
    \/ ~Truthy(title)
    \/ Len(Strip(title)) < 1
    \/ Len(Strip(title)) > MaxTitleLen

\* the value Note.validate_title stores
ValidateTitle(title) == Strip(title)

Max(S) == CHOOSE x \in S : \A y \in S : y <= x

\* The INTEGER PRIMARY KEY the database gives a new notes row: one more than
\* the largest rowid of the table.
NewNoteId == IF DOMAIN notes = {} THEN 1 ELSE Max(DOMAIN notes) + 1

\* NoteSchema.dump, with the nested user as only=['id', 'username']
NoteDumpOf(N, id) ==
    [kind |-> "note", id |-> id, title |-> N[id].title, content |-> N[id].content,
     created_at |-> N[id].created_at, updated_at |-> N[id].updated_at,
     user_id |-> N[id].user_id,
     user |-> [id |-> N[id].user_id, username |-> users[N[id].user_id].username]]

NoteDump(id) == NoteDumpOf(notes, id)

\* A lookup by id alone, as filter_by(id=note_id) would make it.
FindNoteAnyOwner(note_id, uid) == IF note_id \in DOMAIN notes THEN note_id ELSE 0

\* Note.query.filter_by(id=note_id, user_id=user.id).first(): 0 for None
FindNote(note_id, uid) ==
    IF note_id \in DOMAIN notes /\ notes[note_id].user_id = uid THEN note_id ELSE 0

\* The ids of Note.query.filter_by(user_id=uid)
NotesOf(uid) == { id \in DOMAIN notes : notes[id].user_id = uid }

Perms(S) ==
    { s \in [1..Cardinality(S) -> S] : \A i, j \in DOMAIN s : i # j => s[i] # s[j] }

\* .order_by(Note.updated_at.desc()): the row orders the database may
\* answer with.  The ORDER BY names no second key, so rows of equal
\* updated_at come in an order the query does not fix.
QueryOrders(uid) ==
    { s \in Perms(NotesOf(uid)) :
        \A i, j \in DOMAIN s :
            i < j => notes[s[i]].updated_at >= notes[s[j]].updated_at }

\* ceil(total / per_page)
CeilDiv(a, b) == (a + b - 1) \div b

Min(a, b) == IF a < b THEN a ELSE b

\* A paginate whose OFFSET is page * per_page.
PaginateOffByOne(ord, page0, per_page0) ==
    LET page == IF page0 < 1 THEN 1 ELSE page0
        per_page == IF per_page0 < 1 THEN 20 ELSE per_page0
        offset == page * per_page
        total == Len(ord)
        pages == IF total = 0 THEN 0 ELSE CeilDiv(total, per_page)
    IN [items |-> SubSeq(ord, offset + 1, Min(offset + per_page, total)),
        page |-> page,
        per_page |-> per_page,
        total |-> total,
        pages |-> pages,
        has_next |-> page < pages,
        has_prev |-> page > 1]

\* A paginate that serves the last page for a page beyond it.
PaginateClampsToLast(ord, page0, per_page0) ==
    LET per_page == IF per_page0 < 1 THEN 20 ELSE per_page0
        total == Len(ord)
        pages == IF total = 0 THEN 0 ELSE CeilDiv(total, per_page)
        page == IF page0 < 1 THEN 1
                ELSE IF pages >= 1 /\ page0 > pages THEN pages ELSE page0
        offset == (page - 1) * per_page
    IN [items |-> SubSeq(ord, offset + 1, Min(offset + per_page, total)),
        page |-> page,
        per_page |-> per_page,
        total |-> total,
        pages |-> pages,
        has_next |-> page < pages,
        has_prev |-> page > 1]

\* Query.paginate(page, per_page, error_out=False) over the rows in order
\* ord: with error_out off a page below 1 becomes 1 and a per_page below 1
\* becomes 20; items are LIMIT per_page OFFSET (page - 1) * per_page.
Paginate(ord, page0, per_page0) ==
    LET page == IF page0 < 1 THEN 1 ELSE page0
        per_page == IF per_page0 < 1 THEN 20 ELSE per_page0
        offset == (page - 1) * per_page
        total == Len(ord)
        pages == IF total = 0 THEN 0 ELSE CeilDiv(total, per_page)
    IN [items |-> SubSeq(ord, offset + 1, Min(offset + per_page, total)),
        page |-> page,
        per_page |-> per_page,
        total |-> total,
        pages |-> pages,
        has_next |-> page < pages,
        has_prev |-> page > 1]

-----------------------------------------------------------------------------
(* Notes routes                                                            *)

\* A per_page passed on as requested.
UncappedPerPage(per_page) == per_page

\* per_page = min(per_page, 100)
CapPerPage(per_page) == Min(per_page, MaxPerPage)

\* NotesResource.get; ord is the order in which the database returns the
\* caller's rows.
NotesGet(c, args, ord) ==
    IF ~LoggedIn(c) THEN Unauthorized(c)
    ELSE
      LET page == IF "page" \in DOMAIN args THEN args["page"] ELSE 1
          per_page == CapPerPage(IF "per_page" \in DOMAIN args THEN args["per_page"] ELSE 10)
          pagination == Paginate(ord, page, per_page)
      IN Result(200,
                [kind |-> "notes",
                 notes |-> [i \in DOMAIN pagination.items |-> NoteDump(pagination.items[i])],
                 pagination |->
                    [page |-> pagination.page,
                     per_page |-> pagination.per_page,
                     total |-> pagination.total,
                     total_pages |-> pagination.pages,
                     has_next |-> pagination.has_next,
                     has_prev |-> pagination.has_prev]],
                users, notes, session[c])

\* NotesResource.post
NotesPost(c, data) ==
    LET same(status, msg) == Result(status, ErrorBody(msg), users, notes, session[c])
    IN
    IF ~LoggedIn(c) THEN Unauthorized(c)
    ELSE IF data = EmptyDict THEN same(400, "No data provided")
    ELSE IF Falsy(data, "title") THEN same(400, "Title is required")
    ELSE IF TitleInvalid(data["title"]) THEN same(422, "Note title")
    ELSE
      LET id == NewNoteId
          row == [title |-> ValidateTitle(data["title"]),
                  content |-> IF "content" \in DOMAIN data THEN data["content"] ELSE <<>>,
                  created_at |-> now,
                  updated_at |-> now,
                  user_id |-> CurrentUser(c)]
          N == [n \in DOMAIN notes \cup {id} |-> IF n = id THEN row ELSE notes[n]]
      IN Result(201, NoteDumpOf(N, id), users, N, session[c])

NotFound(c) == Result(404, ErrorBody("Note not found"), users, notes, session[c])

\* NoteResource.get
NoteGet(c, note_id) ==
    IF ~LoggedIn(c) THEN Unauthorized(c)
    ELSE IF FindNote(note_id, CurrentUser(c)) = 0 THEN NotFound(c)
    ELSE Result(200, NoteDump(note_id), users, notes, session[c])

\* A patch that replaces the note as a PUT would: a content the body does
\* not hold is stored as the default ''.
NotePatchReplaces(c, note_id, data) ==
    LET same(status, msg) == Result(status, ErrorBody(msg), users, notes, session[c])
    IN
    IF ~LoggedIn(c) THEN Unauthorized(c)
    ELSE IF FindNote(note_id, CurrentUser(c)) = 0 THEN NotFound(c)
    ELSE IF data = EmptyDict THEN same(400, "No data provided")
    ELSE IF "title" \in DOMAIN data /\ TitleInvalid(data["title"])
    THEN same(422, "Note title")
    ELSE
      LET old == notes[note_id]
          title == IF "title" \in DOMAIN data THEN ValidateTitle(data["title"]) ELSE old.title
          content == IF "content" \in DOMAIN data THEN data["content"] ELSE <<>>
          dirty == title # old.title \/ content # old.content
          row == [old EXCEPT !.title = title, !.content = content,
                             !.updated_at = IF dirty THEN now ELSE @]
          N == [notes EXCEPT ![note_id] = row]
      IN Result(200, NoteDumpOf(N, note_id), users, N, session[c])

\* NoteResource.patch.  The commit writes an UPDATE, and with it
\* onupdate=datetime.utcnow, only when an assigned attribute differs from
\* the loaded one.
NotePatch(c, note_id, data) ==
    LET same(status, msg) == Result(status, ErrorBody(msg), users, notes, session[c])
    IN
    IF ~LoggedIn(c) THEN Unauthorized(c)
    ELSE IF FindNote(note_id, CurrentUser(c)) = 0 THEN NotFound(c)
    ELSE IF data = EmptyDict THEN same(400, "No data provided")
    ELSE IF "title" \in DOMAIN data /\ TitleInvalid(data["title"])
    THEN same(422, "Note title")
    ELSE
      LET old == notes[note_id]
          title == IF "title" \in DOMAIN data THEN ValidateTitle(data["title"]) ELSE old.title
          content == IF "content" \in DOMAIN data THEN data["content"] ELSE old.content
          dirty == title # old.title \/ content # old.content
          row == [old EXCEPT !.title = title, !.content = content,
                             !.updated_at = IF dirty THEN now ELSE @]
          N == [notes EXCEPT ![note_id] = row]
      IN Result(200, NoteDumpOf(N, note_id), users, N, session[c])

\* NoteResource.delete without its @login_required.
NoteDeleteUnguarded(c, note_id) ==
    IF FindNote(note_id, CurrentUser(c)) = 0 THEN NotFound(c)
    ELSE Result(204, NoBody, users,
                [n \in DOMAIN notes \ {note_id} |-> notes[n]], session[c])

\* NoteResource.delete
NoteDelete(c, note_id) ==
    IF ~LoggedIn(c) THEN Unauthorized(c)
    ELSE IF FindNote(note_id, CurrentUser(c)) = 0 THEN NotFound(c)
    ELSE Result(204, NoBody, users,
                [n \in DOMAIN notes \ {note_id} |-> notes[n]], session[c])

-----------------------------------------------------------------------------
(* The state machine: one action per request handled.                      *)

Init ==
    /\ users = <<>>
    /\ notes = [n \in {} |-> <<>>]
    /\ session = [c \in Clients |-> EmptyDict]
    /\ now = 0
    /\ deleted = {}

\* What every handler does with its result: the database and the cookie of
\* the requesting client take the values the handler left.
Apply(c, r) ==
    /\ users' = r.users
    /\ notes' = r.notes
    /\ session' = [session EXCEPT ![c] = r.sess]
    /\ UNCHANGED <<now, deleted>>

Signup(bodies) ==
    \E c \in Clients, data \in bodies :
        \E viol \in SignupViolations(data) :
            Apply(c, SignupPost(c, data, viol))

Login(bodies) == \E c \in Clients, data \in bodies : Apply(c, LoginPost(c, data))

Logout == \E c \in Clients : Apply(c, LogoutDelete(c))

CheckSession == \E c \in Clients : Apply(c, CheckSessionGet(c))

ListNotes(queries) ==
    \E c \in Clients, args \in queries :
        \E ord \in QueryOrders(CurrentUser(c)) :
            Apply(c, NotesGet(c, args, ord))

CreateNote(bodies) ==
    \E c \in Clients, data \in bodies :
        /\ NewNoteId <= MaxNoteId
        /\ Apply(c, NotesPost(c, data))

ReadNote ==
    \E c \in Clients, id \in NoteIdInputs : Apply(c, NoteGet(c, id))

UpdateNote(bodies) ==
    \E c \in Clients, id \in NoteIdInputs, data \in bodies :
        Apply(c, NotePatch(c, id, data))

DeleteNote ==
    \E c \in Clients, id \in NoteIdInputs : Apply(c, NoteDelete(c, id))

\* datetime.utcnow moves on between two requests.
Tick ==
    /\ now < MaxTime
    /\ now' = now + 1
    /\ UNCHANGED <<users, notes, session, deleted>>

\* The note bodies the clients of Spec send: with and without a title, all
\* of one title and no content, so that the notes of Spec differ by owner,
\* id and time only.  The handlers are examined on every body of NoteBodies.
PlainNoteBodies == { d \in NoteBodies : \A k \in DOMAIN d : d[k] \in {<<>>, <<"a">>} }

\* The whole API, its notes written with the bodies of PlainNoteBodies.
Next ==
    \/ Signup(SignupBodies)
    \/ Login(LoginBodies)
    \/ Logout
    \/ CheckSession
    \/ ListNotes(ArgInputs)
    \/ CreateNote(PlainNoteBodies)
    \/ ReadNote
    \/ UpdateNote(PlainNoteBodies)
    \/ DeleteNote
    \/ Tick

Spec == Init /\ [][Next]_vars

\* The sign-up of SpecNotes: one user, who owns every note of it.
NotesSignupBodies ==
    { [username |-> <<"a", "b", "c">>, email |-> <<"x", "@", "y">>, password |-> <<"p">>] }

NotesLoginBodies ==
    { [username |-> d["username"], password |-> d["password"]] : d \in NotesSignupBodies }

\* A JSON object that holds neither 'title' nor 'content'.
UnknownFieldBodies == { [color |-> <<"c">>] }

PatchBodies == NoteBodies \cup UnknownFieldBodies

\* The whole API again, for one user and with every note body: the notes of
\* SpecNotes differ by title, content and time of update.
NextNotes ==
    \/ Signup(NotesSignupBodies)
    \/ Login(NotesLoginBodies)
    \/ Logout
    \/ CheckSession
    \/ ListNotes({EmptyDict})
    \/ CreateNote(NoteBodies)
    \/ ReadNote
    \/ UpdateNote(PatchBodies)
    \/ DeleteNote
    \/ Tick

SpecNotes == Init /\ [][NextNotes]_vars

\* NoteResource.delete handled, and the id of the deleted note recorded.
DeleteNoteLogged ==
    \E c \in Clients, id \in NoteIdInputs :
        LET r == NoteDelete(c, id)
        IN /\ users' = r.users
           /\ notes' = r.notes
           /\ session' = [session EXCEPT ![c] = r.sess]
           /\ deleted' = (IF r.status = 204 THEN deleted \cup {id} ELSE deleted)
           /\ UNCHANGED now

\* The API of Spec, with the history of its deletions.
NextDelete ==
    \/ Signup(SignupBodies)
    \/ Login(LoginBodies)
    \/ Logout
    \/ CheckSession
    \/ ListNotes(ArgInputs)
    \/ CreateNote(PlainNoteBodies)
    \/ ReadNote
    \/ UpdateNote(PlainNoteBodies)
    \/ DeleteNoteLogged
    \/ Tick

SpecDelete == Init /\ [][NextDelete]_vars

TypeOK ==
    /\ now \in 0..MaxTime
    /\ \A c \in Clients : DOMAIN session[c] \subseteq {"user_id"}
    /\ DOMAIN notes \subseteq 1..MaxNoteId
    /\ deleted \subseteq 1..MaxNoteId

-----------------------------------------------------------------------------
(* Properties.  A request whose answer is examined is the handler applied  *)
(* to the state at hand, for every input of its input set.                 *)

\* The user a session is authenticated as, read off the cookie: 0 for none.
SessionUser(c) == IF "user_id" \in DOMAIN session[c] THEN session[c]["user_id"] ELSE 0

\* A handler's result left the database and the cookie as they were.
Untouched(c, r) == r.users = users /\ r.notes = notes /\ r.sess = session[c]

\* The ids of the notes a listing response holds.
ListedIds(r) == { r.body.notes[i].id : i \in DOMAIN r.body.notes }

\* C1: ownership isolation.  In every reachable state, for a session
\* authenticated as B and a note whose owner is another user, GET, PATCH (with
\* any body) and DELETE of that note answer 404 and leave every note, every
\* user and the session unchanged, and no listing of B (any page, any
\* per_page, any row order) holds the note.
C1_OwnershipIsolation ==
    \A c \in Clients : \A id \in DOMAIN notes :
        (SessionUser(c) # 0 /\ notes[id].user_id # SessionUser(c)) =>
            /\ NoteGet(c, id).status = 404
            /\ Untouched(c, NoteGet(c, id))
            /\ \A data \in NoteBodies :
                   /\ NotePatch(c, id, data).status = 404
                   /\ Untouched(c, NotePatch(c, id, data))
            /\ NoteDelete(c, id).status = 404
            /\ Untouched(c, NoteDelete(c, id))
            /\ \A args \in ArgInputs : \A ord \in QueryOrders(SessionUser(c)) :
                   id \notin ListedIds(NotesGet(c, args, ord))

\* C1's case: the session is authenticated as a user who has notes of their
\* own, while another user's note is stored.
C1_Witness ==
    \E c \in Clients : \E a, b \in DOMAIN notes :
        /\ SessionUser(c) # 0
        /\ notes[a].user_id # SessionUser(c)
        /\ notes[b].user_id = SessionUser(c)

\* C2: every protected operation of a session without a user answers 401,
\* whatever its body, note id or query string, and leaves users, notes and
\* the session as they were.
C2_UnauthenticatedIs401 ==
    \A c \in Clients :
        SessionUser(c) = 0 =>
            /\ LogoutDelete(c).status = 401 /\ Untouched(c, LogoutDelete(c))
            /\ \A args \in ArgInputs :
                   /\ NotesGet(c, args, <<>>).status = 401
                   /\ Untouched(c, NotesGet(c, args, <<>>))
            /\ \A data \in NoteBodies :
                   /\ NotesPost(c, data).status = 401
                   /\ Untouched(c, NotesPost(c, data))
            /\ \A id \in NoteIdInputs :
                   /\ NoteGet(c, id).status = 401 /\ Untouched(c, NoteGet(c, id))
                   /\ NoteDelete(c, id).status = 401 /\ Untouched(c, NoteDelete(c, id))
                   /\ \A data \in NoteBodies :
                          /\ NotePatch(c, id, data).status = 401
                          /\ Untouched(c, NotePatch(c, id, data))

\* C2's case: after a logout the session has no user while users and notes
\* are stored for a request to touch.
C2_Witness ==
    \E c \in Clients : SessionUser(c) = 0 /\ Len(users) = 2 /\ DOMAIN notes # {}

\* The cookie of a session authenticated as user id.
SessionOf(id) == [k \in {"user_id"} |-> id]

\* Every field of a signup or login body that the handler requires is
\* present and not empty.
AllGiven(data, fields) == \A f \in fields : f \in DOMAIN data /\ data[f] # <<>>

\* C3, in each state: GET /check_session answers 200 with the session's user
\* while the session has one and 401 (as does a protected operation) while
\* it has none; a signup answering 201 and a login answering 200 leave the
\* session as the user they return, a logout answers 204 and leaves it
\* without a user, and every other request, failed signups and logins
\* included, leaves the session as it was.
C3_SessionState ==
    \A c \in Clients :
        /\ SessionUser(c) # 0 =>
              /\ SessionUser(c) \in DOMAIN users
              /\ CheckSessionGet(c).status = 200
              /\ CheckSessionGet(c).body.id = SessionUser(c)
              /\ CheckSessionGet(c).body.username = users[SessionUser(c)].username
              /\ LogoutDelete(c).status = 204
              /\ LogoutDelete(c).sess = EmptyDict
              /\ \A id \in NoteIdInputs : NoteGet(c, id).status # 401
        /\ SessionUser(c) = 0 =>
              /\ CheckSessionGet(c).status = 401
              /\ LogoutDelete(c).status = 401
              /\ \A id \in NoteIdInputs : NoteGet(c, id).status = 401
        /\ CheckSessionGet(c).sess = session[c]
        /\ \A data \in SignupBodies : \A viol \in SignupViolations(data) :
              LET r == SignupPost(c, data, viol)
              IN IF r.status = 201
                 THEN r.sess = SessionOf(r.body.id) /\ r.body.id = Len(r.users)
                 ELSE r.sess = session[c]
        /\ \A data \in LoginBodies :
              LET r == LoginPost(c, data)
              IN IF r.status = 200
                 THEN r.sess = SessionOf(r.body.id) /\ r.body.id \in DOMAIN users
                 ELSE r.sess = session[c]
        /\ \A data \in NoteBodies :
              /\ NotesPost(c, data).sess = session[c]
              /\ \A id \in NoteIdInputs :
                    /\ NotePatch(c, id, data).sess = session[c]
                    /\ NoteGet(c, id).sess = session[c]
                    /\ NoteDelete(c, id).sess = session[c]
        /\ \A args \in ArgInputs : \A ord \in QueryOrders(SessionUser(c)) :
              NotesGet(c, args, ord).sess = session[c]

\* C3, over the steps: the session's user changes only in a step that adds
\* a user and makes the session that user (signup), or makes it a stored
\* user (login), or clears an authenticated session (logout).
C3_SessionStep ==
    \A c \in Clients :
        session'[c] # session[c] =>
            \/ /\ Len(users') = Len(users) + 1
               /\ session'[c] = SessionOf(Len(users'))
            \/ /\ users' = users
               /\ \E id \in DOMAIN users : session'[c] = SessionOf(id)
            \/ /\ users' = users
               /\ SessionUser(c) # 0
               /\ session'[c] = EmptyDict

\* C3: session lifecycle within one client session.
C3_SessionLifecycle == [](C3_SessionState) /\ [][C3_SessionStep]_vars

\* C3's case: two users signed up, and the session is authenticated as the
\* first of them, which takes a logout and a login after the second signup.
C3_Witness ==
    \E c \in Clients : Len(users) = 2 /\ SessionUser(c) = 1

\* C4: a login with non-empty username and password answers 200 exactly
\* when a stored user has exactly that username and its hash verifies the
\* password; it then returns that user and makes the session that user.
\* Otherwise, for an unknown username as for a wrong password, it answers
\* the one 401 'Invalid credentials' body and leaves everything as it was.
C4_LoginIffCredentials ==
    \A c \in Clients : \A data \in LoginBodies :
        AllGiven(data, {"username", "password"}) =>
            LET r == LoginPost(c, data)
                match == { i \in DOMAIN users :
                             /\ users[i].username = data["username"]
                             /\ CheckPasswordHash(users[i].password_hash, data["password"]) }
            IN IF match # {}
               THEN /\ r.status = 200
                    /\ r.body.kind = "user"
                    /\ r.body.id \in match
                    /\ r.body.username = data["username"]
                    /\ r.sess = SessionOf(r.body.id)
                    /\ r.users = users /\ r.notes = notes
               ELSE /\ r.status = 401
                    /\ r.body = [kind |-> "error", msg |-> "Invalid credentials"]
                    /\ Untouched(c, r)

\* C4's case: the session is authenticated as one user while another user
\* is stored too, so that a login both succeeds (as the other user) and
\* fails (wrong password, unknown username) from an authenticated session.
C4_Witness ==
    \E c \in Clients :
        /\ SessionUser(c) = 2
        /\ \E data \in LoginBodies :
              LoginPost(c, data).status = 200 /\ LoginPost(c, data).body.id = 1
        /\ \E data \in LoginBodies :
              /\ AllGiven(data, {"username", "password"})
              /\ \E i \in DOMAIN users : users[i].username = data["username"]
              /\ LoginPost(c, data).status = 401
        /\ \E data \in LoginBodies :
              /\ AllGiven(data, {"username", "password"})
              /\ \A i \in DOMAIN users : users[i].username # data["username"]
              /\ LoginPost(c, data).status = 401

\* The username and the email a signup stores, computed from the body.
StoredUsername(data) == Strip(data["username"])

StoredEmail(data) == Strip(Lower(data["email"]))

UsernameTaken(name) == \E i \in DOMAIN users : users[i].username = name

EmailTaken(email) == \E i \in DOMAIN users : users[i].email = email

\* A signup body that passes the required-field and the validation checks.
ValidSignup(data) ==
    /\ AllGiven(data, {"username", "email", "password"})
    /\ Len(Strip(data["username"])) >= 3
    /\ \E i \in DOMAIN data["email"] : data["email"][i] = "@"

\* C5: no two stored users share a username or an email, each stored in its
\* trimmed (and, the email, lowercased) form; a valid signup whose trimmed
\* username and normalised email are both new answers 201 and adds that
\* user, and a signup with a taken username answers 422 whatever its email
\* and adds none.
C5_UserUniqueness ==
    /\ \A i, j \in DOMAIN users :
          i # j => /\ users[i].username # users[j].username
                   /\ users[i].email # users[j].email
    /\ \A i \in DOMAIN users :
          /\ users[i].username = Strip(users[i].username)
          /\ users[i].email = Strip(Lower(users[i].email))
    /\ \A c \in Clients : \A data \in SignupBodies : \A viol \in SignupViolations(data) :
          LET r == SignupPost(c, data, viol)
          IN /\ (ValidSignup(data) /\ ~UsernameTaken(StoredUsername(data))
                                  /\ ~EmailTaken(StoredEmail(data))) =>
                    /\ r.status = 201
                    /\ Len(r.users) = Len(users) + 1
                    /\ SubSeq(r.users, 1, Len(users)) = users
                    /\ r.users[Len(r.users)].username = StoredUsername(data)
                    /\ r.users[Len(r.users)].email = StoredEmail(data)
             /\ (ValidSignup(data) /\ EmailTaken(StoredEmail(data))) =>
                    r.status = 422 /\ r.users = users
             /\ (AllGiven(data, {"username", "email", "password"})
                    /\ UsernameTaken(StoredUsername(data))) =>
                    r.status = 422 /\ r.users = users

\* C5's case: two signups have stored two users, and a further valid signup
\* whose username equals a stored one only after trimming is rejected.
C5_Witness ==
    /\ Len(users) = 2
    /\ \E c \in Clients : \E data \in SignupBodies :
          /\ ValidSignup(data)
          /\ data["username"] # StoredUsername(data)
          /\ UsernameTaken(StoredUsername(data))
          /\ SignupPost(c, data, "username").status = 422

\* C6: a signup rejected for uniqueness names the field that conflicted:
\* 'Email already exists' when only the email is taken, 'Username already
\* exists' when only the username is.
C6_ConflictFieldReported ==
    \A c \in Clients : \A data \in SignupBodies : \A viol \in SignupViolations(data) :
        LET r == SignupPost(c, data, viol)
        IN ValidSignup(data) =>
              /\ (~UsernameTaken(StoredUsername(data)) /\ EmailTaken(StoredEmail(data))) =>
                     r.status = 422 /\ r.body.msg = "Email already exists"
              /\ (UsernameTaken(StoredUsername(data)) /\ ~EmailTaken(StoredEmail(data))) =>
                     r.status = 422 /\ r.body.msg = "Username already exists"

\* C7: a signup with a required field missing or empty answers 400; with
\* all three given, a username shorter than 3 characters after trimming or
\* an email without '@' answers 422; either way no user is stored and the
\* session keeps the user, or the absence of one, it had.
C7_InvalidSignupRejected ==
    \A c \in Clients : \A data \in SignupBodies : \A viol \in SignupViolations(data) :
        LET r == SignupPost(c, data, viol)
            given == AllGiven(data, {"username", "email", "password"})
        IN /\ ~given => r.status = 400 /\ Untouched(c, r)
           /\ (given /\ ~ValidSignup(data)) => r.status = 422 /\ Untouched(c, r)

\* C7's case: users are stored and the session has none (after a logout),
\* and signup bodies of both kinds, incomplete and invalid, are rejected.
C7_Witness ==
    \E c \in Clients :
        /\ SessionUser(c) = 0
        /\ Len(users) = 1
        /\ \E data \in SignupBodies : SignupPost(c, data, "none").status = 400
        /\ \E data \in SignupBodies :
              /\ AllGiven(data, {"username", "email", "password"})
              /\ ~UsernameTaken(StoredUsername(data))
              /\ SignupPost(c, data, "none").status = 422

\* The number of notes user uid owns.
Owned(uid) == Cardinality({ id \in DOMAIN notes : notes[id].user_id = uid })

\* ceil(n / k) for k >= 1, as the least number of pages of k that hold n.
PagesFor(n, k) == IF n = 0 THEN 0 ELSE CHOOSE m \in 1..n : m * k >= n /\ (m - 1) * k < n

\* The per_page values of the input set that the handler takes as they are.
PlainPerPage == { k \in PerPageInputs : 1 <= k /\ k <= 100 }

PageArgs(p, k) == [page |-> p, per_page |-> k]

ArgsWithPerPage(k) == { a \in ArgInputs : "per_page" \in DOMAIN a /\ a["per_page"] = k }

\* C9: a per_page above 100 is capped: the metadata says per_page = 100,
\* at most 100 items come back, and total_pages is ceil(total / 100).
C9_PerPageCapped ==
    \A c \in Clients :
        SessionUser(c) # 0 =>
            \A k \in PerPageInputs :
                k > 100 =>
                    \A args \in ArgsWithPerPage(k) : \A ord \in QueryOrders(SessionUser(c)) :
                        LET r == NotesGet(c, args, ord)
                        IN /\ r.status = 200
                           /\ r.body.pagination.per_page = 100
                           /\ Len(r.body.notes) <= 100
                           /\ r.body.pagination.total = Owned(SessionUser(c))
                           /\ r.body.pagination.total_pages =
                                 PagesFor(Owned(SessionUser(c)), 100)

\* C9's case: the caller owns two notes and asks for per_page = 1000; both
\* come back on the one page of 100.
C9_Witness ==
    \E c \in Clients :
        /\ SessionUser(c) # 0
        /\ Owned(SessionUser(c)) = 2
        /\ \E ord \in QueryOrders(SessionUser(c)) :
              LET r == NotesGet(c, [per_page |-> 1000], ord)
              IN /\ r.body.pagination.per_page = 100
                 /\ r.body.pagination.total_pages = 1
                 /\ Len(r.body.notes) = 2

\* The query strings whose per_page is absent (10) or taken as it is.
PlainArgs ==
    { a \in ArgInputs :
        "page" \in DOMAIN a /\ ("per_page" \in DOMAIN a => a["per_page"] \in PlainPerPage) }

PerPageOf(a) == IF "per_page" \in DOMAIN a THEN a["per_page"] ELSE 10

\* C10 as claimed: a page below 1, like a page above total_pages, answers
\* 200 with an empty list and the caller's total and total_pages.
C10_OutOfRangeEmpty ==
    \A c \in Clients :
        SessionUser(c) # 0 =>
            \A args \in PlainArgs : \A ord \in QueryOrders(SessionUser(c)) :
                LET r == NotesGet(c, args, ord)
                    N == Owned(SessionUser(c))
                    TP == PagesFor(N, PerPageOf(args))
                IN (args["page"] < 1 \/ args["page"] > TP) =>
                       /\ r.status = 200
                       /\ r.body.notes = <<>>
                       /\ r.body.pagination.total = N
                       /\ r.body.pagination.total_pages = TP

\* C10 amended: a page above total_pages answers 200 with an empty list,
\* the requested page number and the caller's total and total_pages; a page
\* below 1 is not an error either, but is answered as page 1: the same
\* items and metadata as a request for page 1, with page = 1.
C10_OutOfRangePages ==
    \A c \in Clients :
        SessionUser(c) # 0 =>
            \A args \in PlainArgs : \A ord \in QueryOrders(SessionUser(c)) :
                LET r == NotesGet(c, args, ord)
                    N == Owned(SessionUser(c))
                    TP == PagesFor(N, PerPageOf(args))
                    first == NotesGet(c, [args EXCEPT !["page"] = 1], ord)
                IN /\ args["page"] > TP /\ args["page"] >= 1 =>
                       /\ r.status = 200
                       /\ r.body.notes = <<>>
                       /\ r.body.pagination.page = args["page"]
                       /\ r.body.pagination.total = N
                       /\ r.body.pagination.total_pages = TP
                       /\ ~r.body.pagination.has_next
                   /\ args["page"] < 1 =>
                       /\ r.status = 200
                       /\ r.body = first.body
                       /\ r.body.pagination.page = 1
                       /\ r.body.pagination.total = N
                       /\ r.body.pagination.total_pages = TP
                       /\ Len(r.body.notes) = (IF N < PerPageOf(args) THEN N ELSE PerPageOf(args))

\* C10's case: the caller owns two notes; page 0 brings the first page's
\* notes and page 3 an empty list, both with total = 2.
C10_Witness ==
    \E c \in Clients :
        /\ SessionUser(c) # 0
        /\ Owned(SessionUser(c)) = 2
        /\ \E ord \in QueryOrders(SessionUser(c)) :
              /\ Len(NotesGet(c, PageArgs(0, 1), ord).body.notes) = 1
              /\ NotesGet(c, PageArgs(3, 1), ord).body.notes = <<>>
              /\ NotesGet(c, PageArgs(3, 1), ord).body.pagination.total = 2

\* The query strings whose per_page is absent, zero or negative.
NoPerPageArgs ==
    { a \in ArgInputs : "per_page" \in DOMAIN a => a["per_page"] <= 0 }

\* C11: a listing whose per_page is missing, zero or negative is answered
\* with the default: its metadata says per_page = 10; and no listing's
\* metadata says a per_page outside [1,100].
C11_NonPositivePerPageIsTen ==
    \A c \in Clients :
        SessionUser(c) # 0 =>
            \A args \in ArgInputs : \A ord \in QueryOrders(SessionUser(c)) :
                LET r == NotesGet(c, args, ord)
                IN /\ r.status = 200
                   /\ r.body.pagination.per_page \in 1..100
                   /\ args \in NoPerPageArgs => r.body.pagination.per_page = 10

\* C12: the rows of a listing come by updated_at descending, rows of equal
\* updated_at by id descending, so that one store state has one row order
\* and one assignment of notes to pages.
C12_TiesByIdDescending ==
    \A c \in Clients :
        SessionUser(c) # 0 =>
            \A ord \in QueryOrders(SessionUser(c)) :
                \A i, j \in DOMAIN ord :
                    i < j =>
                        \/ notes[ord[i]].updated_at > notes[ord[j]].updated_at
                        \/ /\ notes[ord[i]].updated_at = notes[ord[j]].updated_at
                           /\ ord[i] > ord[j]

\* C13: partial update frame.  No PATCH, whatever its session, note id and
\* body, changes a user, adds or removes a note, changes another note, or
\* changes the id, user_id or created_at of its own; one that answers 200 is
\* the owner's, and stores the trimmed title if the body holds a title and
\* the content if it holds a content, keeping the stored value of a field
\* the body does not hold; one that does not answer 200 changes nothing.
C13_PartialUpdateFrame ==
    \A c \in Clients : \A id \in NoteIdInputs : \A data \in PatchBodies :
        LET r == NotePatch(c, id, data)
        IN /\ r.users = users
           /\ r.sess = session[c]
           /\ DOMAIN r.notes = DOMAIN notes
           /\ \A n \in DOMAIN notes :
                 /\ r.notes[n].user_id = notes[n].user_id
                 /\ r.notes[n].created_at = notes[n].created_at
                 /\ n # id => r.notes[n] = notes[n]
           /\ r.status = 200 =>
                 /\ id \in DOMAIN notes
                 /\ notes[id].user_id = SessionUser(c)
                 /\ r.notes[id].title =
                       (IF "title" \in DOMAIN data THEN Strip(data["title"])
                        ELSE notes[id].title)
                 /\ r.notes[id].content =
                       (IF "content" \in DOMAIN data THEN data["content"]
                        ELSE notes[id].content)
                 /\ r.body.id = id
                 /\ r.body.title = r.notes[id].title
                 /\ r.body.content = r.notes[id].content
           /\ r.status # 200 => r.notes = notes

\* C13's case: the owner's session holds two notes, one of them with title
\* 'b' and content 'c' after an update; a PATCH of its title alone answers
\* 200, changes the title and keeps the content, and a PATCH of its content
\* alone keeps the title.
C13_Witness ==
    \E c \in Clients : \E id, other \in DOMAIN notes :
        /\ id # other
        /\ notes[id].user_id = SessionUser(c)
        /\ notes[id].title = <<"b">>
        /\ notes[id].content = <<"c">>
        /\ notes[id].updated_at > notes[id].created_at
        /\ LET r == NotePatch(c, id, [title |-> <<"a">>])
           IN /\ r.status = 200
              /\ r.notes[id].title = <<"a">>
              /\ r.notes[id].content = <<"c">>
        /\ LET r == NotePatch(c, id, [content |-> <<>>])
           IN /\ r.status = 200
              /\ r.notes[id].title = <<"b">>
              /\ r.notes[id].content = <<>>

\* C14: update monotonicity.  A stored updated_at is never below its
\* created_at; a PATCH answering 200 never lowers the note's updated_at, and
\* one handled after the clock has moved on since the note's last write
\* leaves it strictly greater than before, whether the body changes the
\* note, repeats its title or content, or holds neither.
C14_UpdatedAtStrictlyIncreases ==
    /\ \A id \in DOMAIN notes : notes[id].updated_at >= notes[id].created_at
    /\ \A c \in Clients : \A id \in DOMAIN notes : \A data \in PatchBodies :
          LET r == NotePatch(c, id, data)
          IN r.status = 200 =>
                /\ r.notes[id].updated_at >= notes[id].updated_at
                /\ r.notes[id].updated_at >= r.notes[id].created_at
                /\ now > notes[id].updated_at =>
                      r.notes[id].updated_at > notes[id].updated_at

\* A title of 200 characters followed by a space: 201 as sent, 200 trimmed.
PaddedFullTitle == [i \in 1..(MaxTitleLen + 1) |-> IF i <= MaxTitleLen THEN "t" ELSE " "]

\* The note bodies, and those with a title at the limit.
EdgeNoteBodies ==
    NoteBodies \cup { [title |-> PaddedFullTitle],
                      [title |-> PaddedFullTitle, content |-> <<"c">>] }

\* The title of a body is missing or the empty string.
NoTitle(data) == "title" \notin DOMAIN data \/ data["title"] = <<>>

\* The title of a body is whitespace only, or longer than 200 once trimmed.
BadTitle(data) ==
    /\ ~NoTitle(data)
    /\ \/ Len(Strip(data["title"])) = 0
       \/ Len(Strip(data["title"])) > 200

\* C15: title validity.  Every stored title equals its trimmed form and has
\* 1 to 200 characters.  A POST /notes of an authenticated session answers
\* 400 for a missing or empty title and 422 for a whitespace-only or too
\* long one, and otherwise 201, storing the trimmed title; a PATCH of an own
\* note answers 422 for a whitespace-only or too long title; every one of
\* these rejections leaves users, notes and the session as they were.
C15_TitleValidity ==
    /\ \A id \in DOMAIN notes :
          /\ notes[id].title = Strip(notes[id].title)
          /\ Len(notes[id].title) >= 1
          /\ Len(notes[id].title) <= 200
    /\ \A c \in Clients :
          SessionUser(c) # 0 =>
              \A data \in EdgeNoteBodies :
                  /\ LET r == NotesPost(c, data)
                     IN /\ NoTitle(data) => r.status = 400 /\ Untouched(c, r)
                        /\ BadTitle(data) => r.status = 422 /\ Untouched(c, r)
                        /\ (~NoTitle(data) /\ ~BadTitle(data)) =>
                              /\ r.status = 201
                              /\ DOMAIN r.notes = DOMAIN notes \cup {r.body.id}
                              /\ r.body.id \notin DOMAIN notes
                              /\ r.notes[r.body.id].title = Strip(data["title"])
                              /\ r.body.title = Strip(data["title"])
                              /\ \A n \in DOMAIN notes : r.notes[n] = notes[n]
                  /\ \A id \in DOMAIN notes :
                        (notes[id].user_id = SessionUser(c) /\ BadTitle(data)) =>
                            /\ NotePatch(c, id, data).status = 422
                            /\ Untouched(c, NotePatch(c, id, data))

\* C15's case: an authenticated session owns a note whose title, 'b', was
\* stored trimmed by an update; a POST without title, one with a blank
\* title and one with a title of 201 characters are rejected, the last two
\* as a PATCH of that note as well, and a title of 200 characters once
\* trimmed is accepted.
C15_Witness ==
    \E c \in Clients : \E id \in DOMAIN notes :
        /\ notes[id].user_id = SessionUser(c)
        /\ notes[id].title = <<"b">>
        /\ notes[id].updated_at > notes[id].created_at
        /\ NotesPost(c, [content |-> <<"c">>]).status = 400
        /\ NotesPost(c, [title |-> <<" ">>]).status = 422
        /\ NotesPost(c, [title |-> LongTitle]).status = 422
        /\ NotesPost(c, [title |-> PaddedFullTitle]).status = 201
        /\ NotePatch(c, id, [title |-> <<" ">>]).status = 422
        /\ NotePatch(c, id, [title |-> LongTitle]).status = 422
        /\ NotePatch(c, id, [title |-> <<"b", " ">>]).status = 200

\* C16: deletion is immediate and permanent.  A DELETE answering 204 is the
\* owner's, removes that note and no other, changes no other note and no
\* user, and lowers the owner's total by one; and a note id a DELETE has
\* answered 204 for stays gone: it is not stored, and for every authenticated
\* session GET, PATCH (any body) and DELETE of it answer 404 and no listing
\* holds it.
C16_DeletionPermanent ==
    /\ \A c \in Clients : \A id \in NoteIdInputs :
          LET r == NoteDelete(c, id)
          IN r.status = 204 =>
                /\ id \in DOMAIN notes
                /\ notes[id].user_id = SessionUser(c)
                /\ DOMAIN r.notes = DOMAIN notes \ {id}
                /\ \A n \in DOMAIN r.notes : r.notes[n] = notes[n]
                /\ r.users = users
                /\ Cardinality({ n \in DOMAIN r.notes : r.notes[n].user_id = SessionUser(c) })
                      = Owned(SessionUser(c)) - 1
    /\ \A id \in deleted :
          /\ id \notin DOMAIN notes
          /\ \A c \in Clients :
                SessionUser(c) # 0 =>
                    /\ NoteGet(c, id).status = 404
                    /\ NoteDelete(c, id).status = 404
                    /\ \A data \in NoteBodies : NotePatch(c, id, data).status = 404
                    /\ \A args \in ArgInputs : \A ord \in QueryOrders(SessionUser(c)) :
                          id \notin ListedIds(NotesGet(c, args, ord))

\* The login body that repeats the username and the password of a sign-up.
SameCredentials(data) == [username |-> data["username"], password |-> data["password"]]

\* A step that may be the sign-up of body data by client c answering 201.
SignedUpWith(c, data) ==
    /\ SignupPost(c, data, "none").status = 201
    /\ users' = SignupPost(c, data, "none").users
    /\ session'[c] = SignupPost(c, data, "none").sess

\* C17: sign-up and login round trip.  After a POST /signup that answered
\* 201, a POST /login with the username and the password as they were
\* submitted answers 200 with the user the sign-up created, also when the
\* submitted username has leading or trailing whitespace.
C17_SignupLoginRoundTrip ==
    [][\A c \in Clients : \A data \in SignupBodies :
          SignedUpWith(c, data) =>
              /\ LoginPost(c, SameCredentials(data))'.status = 200
              /\ LoginPost(c, SameCredentials(data))'.body.id = Len(users')
              /\ LoginPost(c, SameCredentials(data))'.sess = [k \in {"user_id"} |-> Len(users')]]_vars

====
